---------------------------- MODULE Spec2Model ----------------------------
(***************************************************************************)
(* Model of scripts/auto_sync.py: BranchSyncer drives every configured     *)
(* (base, destination) branch pair through fetch, divergence check, trial  *)
(* merge, optional auto-resolution of documentation conflicts and the      *)
(* pull-request lifecycle (find / create / merge / close).                 *)
(*                                                                         *)
(* One action per gateway call of the script (a git command or a GitHub    *)
(* API call) together with the pure code that follows it up to the next    *)
(* call.  Every gateway call either returns or raises; the exception       *)
(* handlers of the script decide where control goes after a raise.         *)
(* Branch names and file paths are sequences of one-character strings so   *)
(* that str.replace and str.startswith are computed, not assumed.          *)
(***************************************************************************)
EXTENDS Naturals, Sequences, FiniteSets

(***************************************************************************)
(* Bounds of the model.                                                    *)
(***************************************************************************)
\* number of times main() is run on the same working directory
MaxRuns == 2
\* highest pull-request number the platform hands out
MaxPRs == 2

(***************************************************************************)
(* Strings of the program.                                                 *)
(***************************************************************************)
\* "rel/1", "rel_1", "main", "dev": the branches of the modelled repository
Release == <<"r", "e", "l", "/", "1">>
RelUnder == <<"r", "e", "l", "_", "1">>
Main == <<"m", "a", "i", "n">>
Dev == <<"d", "e", "v">>
NoBranch == <<>>

\* self.gh_repo.default_branch
default_branch == Main

\* config.get("conflict_branch_prefix", "sync/")
conflict_prefix == <<"s", "y", "n", "c", "/">>

\* the literal "-into-" of the resolution branch name
Into == <<"-", "i", "n", "t", "o", "-">>

\* the literal 'docs/api/v2/' of the auto-resolve test
DocsPrefix == <<"d", "o", "c", "s", "/", "a", "p", "i", "/", "v", "2", "/">>

\* files a merge may conflict in: "docs/api/v2/a", "docs/api/v2x", "src/a"
DocsA == DocsPrefix \o <<"a">>
DocsNear == <<"d", "o", "c", "s", "/", "a", "p", "i", "/", "v", "2", "x">>
SrcA == <<"s", "r", "c", "/", "a">>
Paths == {DocsA, DocsNear, SrcA}

\* the sets of files a conflicting merge may leave unmerged
ConflictSets == {{DocsA}, {DocsNear}, {SrcA}, {DocsA, SrcA}}

\* f.startswith(p)
StartsWith(f, p) == Len(f) >= Len(p) /\ SubSeq(f, 1, Len(p)) = p

\* s.replace('/', '_')
ReplaceSlash(s) == [i \in 1..Len(s) |-> IF s[i] = "/" THEN "_" ELSE s[i]]

\* f"{self.conflict_prefix}{base.replace('/', '_')}-into-{dest.replace('/', '_')}"
ResolutionBranch(base, dest) ==
    conflict_prefix \o ReplaceSlash(base) \o Into \o ReplaceSlash(dest)

(***************************************************************************)
(* Configurations: config["branches"], a list of groups.                   *)
(***************************************************************************)
ConfigOneGroup == << [base |-> Release, destinations |-> <<Main, Dev>>] >>
ConfigTwoGroups ==
    << [base |-> Release, destinations |-> <<Main>>],
       [base |-> Main, destinations |-> <<Dev>>] >>

\* two groups whose bases differ in '/' against '_' only
ConfigLookalike ==
    << [base |-> Release, destinations |-> <<Main>>],
       [base |-> RelUnder, destinations |-> <<Main>>] >>

\* the nested for loops of sync_all, flattened in iteration order
RECURSIVE GroupPairs(_, _)
GroupPairs(b, ds) ==
    IF ds = <<>> THEN <<>> ELSE <<[base |-> b, dest |-> Head(ds)]>> \o GroupPairs(b, Tail(ds))

RECURSIVE Pairs(_)
Pairs(cfg) ==
    IF cfg = <<>> THEN <<>>
    ELSE GroupPairs(Head(cfg).base, Head(cfg).destinations) \o Pairs(Tail(cfg))

ConfiguredBranches(cfg) ==
    {Pairs(cfg)[i].base : i \in 1..Len(Pairs(cfg))}
        \cup {Pairs(cfg)[i].dest : i \in 1..Len(Pairs(cfg))}

\* every branch name that can occur on the remote
Branches ==
    {Release, RelUnder, Main, Dev}
        \cup {ResolutionBranch(b, d) : b \in {Release, Main, Dev}, d \in {Release, Main, Dev}}

\* pr.mergeable_state as GitHub reports it
MergeableStates == {"clean", "dirty", "blocked", "draft", "unknown", "unstable", "behind"}

VARIABLES
    config,             \* self.config["branches"]
    dry_run,            \* self.dry_run
    merge_prs,          \* self.merge_prs
    auto_resolve_docs,  \* self.auto_resolve_docs
    pc,                 \* the gateway call the script is about to issue
    runs,               \* how many times main() has been started
    k,                  \* position of sync_all in the flattened pair list
    base_branch,        \* _sync_pair's base_branch
    dest_branch,        \* _sync_pair's dest_branch
    head,               \* branch checked out in the working tree
    merging,            \* a merge is in progress in the working tree (MERGE_HEAD)
    unmerged,           \* files with conflict markers in the index
    local_branches,     \* resolution branches that exist in the local clone
    remote,             \* the remote: branch -> set of commits (empty: no such branch)
    origin_refs,        \* self.repo.remotes.origin.refs as of the last fetch
    prs,                \* pull requests of the platform, indexed by number
    conflicting_files,  \* _sync_pair's conflicting_files
    head_branch,        \* _create_or_update_pr's head_branch
    existing_pr,        \* result of the last _find_existing_pr (0: None)
    pr,                 \* _merge_pr's pr (its number, 0: not in _merge_pr)
    in_create_try,      \* _merge_pr was called inside the try of line 194
    mergeable_state,    \* pr.mergeable_state read after pr.update()
    create_error,       \* the GithubException create_pull raised in the current pair
    calls,              \* gateway calls issued while processing the current pair
    log,                \* log records written while processing the current pair
    pushed,             \* branches handed to origin.push while processing the current pair
    merged_files,       \* conflicting files as committed by the merge of line 154
    push_info           \* outcome of origin.push in the current pair

vars ==
    << config, dry_run, merge_prs, auto_resolve_docs, pc, runs, k, base_branch,
       dest_branch, head, merging, unmerged, local_branches, remote, origin_refs,
       prs, conflicting_files, head_branch, existing_pr, pr,
       in_create_try, mergeable_state, create_error, calls, log, pushed,
                    merged_files, push_info >>

flags == << config, dry_run, merge_prs, auto_resolve_docs >>
tree == << head, merging, unmerged, local_branches >>
platform == << remote, prs >>
pr_locals ==
    << head_branch, existing_pr, pr, in_create_try, mergeable_state, create_error >>

(***************************************************************************)
(* States of the repository and the platform the script may start from.    *)
(***************************************************************************)
NoRefs == [b \in Branches |-> {}]

\* release/1 is ahead of main and dev
RemoteDiverged == [NoRefs EXCEPT ![Release] = {1, 2}, ![Main] = {1}, ![Dev] = {1}]
\* main holds all of release/1, dev holds all of main
RemoteUpToDate == [NoRefs EXCEPT ![Release] = {1}, ![Main] = {1}, ![Dev] = {1, 2}]
\* main holds all of release/1, and there is no branch dev
RemoteNoDev == [NoRefs EXCEPT ![Release] = {1, 2}, ![Main] = {1, 2}]

\* main holds all of rel/1, and rel_1 is ahead of main
RemoteLookalike ==
    [NoRefs EXCEPT ![Release] = {1, 2}, ![RelUnder] = {1, 3}, ![Main] = {1, 2}]

NoPrs == <<>>
\* no GithubException raised
NoError == [status |-> 0, data |-> "none"]
OnePr == << [head |-> Release, base |-> Main, state |-> "open"] >>

\* remote-tracking refs of a clone made while dev still existed on the remote
StaleDev == [RemoteNoDev EXCEPT ![Dev] = {1}]

\* the configuration, the remote, the open requests and the remote-tracking
\* refs a first run starts from: a fresh clone (line 50) has the refs of the
\* remote, a clone found in the work directory (lines 44-47) may hold the ref
\* of a branch deleted on the remote since
Scenarios ==
    { [config |-> ConfigOneGroup, remote |-> RemoteDiverged, prs |-> NoPrs,
       origin_refs |-> RemoteDiverged],
      [config |-> ConfigOneGroup, remote |-> RemoteNoDev, prs |-> OnePr,
       origin_refs |-> RemoteNoDev],
      [config |-> ConfigOneGroup, remote |-> RemoteNoDev, prs |-> NoPrs,
       origin_refs |-> StaleDev],
      [config |-> ConfigTwoGroups, remote |-> RemoteDiverged, prs |-> OnePr,
       origin_refs |-> RemoteDiverged],
      [config |-> ConfigTwoGroups, remote |-> RemoteUpToDate, prs |-> NoPrs,
       origin_refs |-> RemoteUpToDate],
      [config |-> ConfigLookalike, remote |-> RemoteLookalike, prs |-> NoPrs,
       origin_refs |-> RemoteLookalike] }

Init ==
    /\ \E s \in Scenarios :
          /\ config = s.config
          /\ remote = s.remote
          /\ prs = s.prs
          /\ origin_refs = s.origin_refs
    /\ dry_run \in BOOLEAN
    /\ merge_prs \in BOOLEAN
    /\ auto_resolve_docs \in BOOLEAN
    /\ pc = "sync_all"
    /\ runs = 1
    /\ k = 1
    /\ base_branch = NoBranch
    /\ dest_branch = NoBranch
    /\ head = default_branch
    /\ merging = FALSE
    /\ unmerged = {}
    /\ local_branches = {}
    /\ conflicting_files = {}
    /\ head_branch = NoBranch
    /\ existing_pr = 0
    /\ pr = 0
    /\ in_create_try = FALSE
    /\ mergeable_state = "none"
    /\ create_error = NoError
    /\ calls = {}
    /\ log = {}
    /\ pushed = {}
    /\ merged_files = {}
    /\ push_info = "none"


pair == << runs, k, base_branch, dest_branch >>

(***************************************************************************)
(* Log records of _sync_pair's two exception handlers.                     *)
(***************************************************************************)
\* except GitCommandError: logging.error("A git command failed ...")
GitFailed == <<"error", "git_command_failed">>
\* except Exception: logging.error("An unexpected error occurred ...")
Unexpected == <<"error", "unexpected_error">>

\* a git checkout can switch branches only when the index has no unmerged file
CanCheckout == unmerged = {}

\* origin.fetch(): every branch of the remote updates its remote-tracking ref;
\* the ref of a branch that is gone from the remote is kept (no --prune)
FetchRefs(refs, rem) == [b \in Branches |-> IF rem[b] # {} THEN rem[b] ELSE refs[b]]

\* names of the branches that exist in a set of refs
Refs(refs) == {b \in Branches : refs[b] # {}}

\* numbers of the open pull requests with this head and base:
\* get_pulls(state='open', head=..., base=...)
OpenPrs(h, b) ==
    {n \in 1..Len(prs) : prs[n].state = "open" /\ prs[n].head = h /\ prs[n].base = b}

\* prs[0] if prs.totalCount > 0 else None
\* (faulty variant: the search is by base only, whatever the head)
FindExistingPrMut(h, b) ==
    IF {n \in 1..Len(prs) : prs[n].state = "open" /\ prs[n].base = b} = {}
    THEN {0}
    ELSE {n \in 1..Len(prs) : prs[n].state = "open" /\ prs[n].base = b}
FindExistingPr(h, b) == IF OpenPrs(h, b) = {} THEN {0} ELSE OpenPrs(h, b)

(***************************************************************************)
(* sync_all: the loop over the configured pairs.                           *)
(***************************************************************************)
SyncAll ==
    /\ pc = "sync_all"
    /\ IF k > Len(Pairs(config))
       THEN /\ pc' = "done"
            /\ UNCHANGED << base_branch, dest_branch, conflicting_files, pr_locals,
                            calls, log, pushed,
                    merged_files, push_info >>
       ELSE /\ pc' = "fetch"
            /\ base_branch' = Pairs(config)[k].base
            /\ dest_branch' = Pairs(config)[k].dest
            /\ conflicting_files' = {}
            /\ head_branch' = NoBranch
            /\ existing_pr' = 0
            /\ pr' = 0
            /\ in_create_try' = FALSE
            /\ mergeable_state' = "none"
            /\ create_error' = NoError
            /\ calls' = {}
            /\ log' = {}
            /\ pushed' = {}
            /\ merged_files' = {}
            /\ push_info' = "none"
    /\ UNCHANGED << flags, runs, k, tree, platform, origin_refs >>

(***************************************************************************)
(* _sync_pair, step 1: fetch and the existence check of both branches.     *)
(***************************************************************************)
Fetch ==
    /\ pc = "fetch"
    /\ calls' = calls \cup {"fetch"}
    /\ \/ /\ origin_refs' = FetchRefs(origin_refs, remote)
          /\ IF \/ base_branch \notin Refs(FetchRefs(origin_refs, remote))
                \/ dest_branch \notin Refs(FetchRefs(origin_refs, remote))
             THEN /\ log' = log \cup {<<"warning", "branch_not_found">>}
                  /\ pc' = "finally"
             ELSE /\ log' = log
                  /\ pc' = "checkout"
       \/ /\ origin_refs' = origin_refs
          /\ log' = log \cup {GitFailed}
          /\ pc' = "finally"
    /\ UNCHANGED << flags, pair, tree, platform, conflicting_files, pr_locals, pushed,
                    merged_files, push_info >>

(***************************************************************************)
(* _sync_pair, step 2: checkout and pull of the destination.               *)
(***************************************************************************)
CheckoutDest ==
    /\ pc = "checkout"
    /\ calls' = calls \cup {"checkout_dest"}
    /\ \/ /\ CanCheckout
          /\ head' = dest_branch
          /\ log' = log
          /\ pc' = "pull"
       \/ /\ head' = head
          /\ log' = log \cup {GitFailed}
          /\ pc' = "finally"
    /\ UNCHANGED << flags, pair, merging, unmerged, local_branches, platform,
                    origin_refs, conflicting_files, pr_locals, pushed,
                    merged_files, push_info >>

PullDest ==
    /\ pc = "pull"
    /\ calls' = calls \cup {"pull"}
    /\ \/ /\ remote[dest_branch] # {}
          /\ log' = log
          /\ pc' = "rev_list"
       \/ /\ log' = log \cup {GitFailed}
          /\ pc' = "finally"
    /\ UNCHANGED << flags, pair, tree, platform, origin_refs, conflicting_files,
                    pr_locals, pushed,
                    merged_files, push_info >>

\* rev_list(f"origin/{base}", f"^origin/{dest}")
CommitsToMerge(base, dest) == origin_refs[base] \ origin_refs[dest]

\* if not commits_to_merge: ... _close_existing_pr_if_needed(...); return
\* (faulty variant: the test merge is run even for an empty divergence)
AfterRevListMut(commits) == "trial_merge"
AfterRevList(commits) == IF commits = {} THEN "close_find" ELSE "trial_merge"

RevList ==
    /\ pc = "rev_list"
    /\ calls' = calls \cup {"rev_list"}
    /\ \/ /\ pc' = AfterRevList(CommitsToMerge(base_branch, dest_branch))
          /\ log' = IF CommitsToMerge(base_branch, dest_branch) = {}
                    THEN log \cup {<<"info", "already_merged">>}
                    ELSE log
       \/ /\ log' = log \cup {GitFailed}
          /\ pc' = "finally"
    /\ UNCHANGED << flags, pair, tree, platform, origin_refs, conflicting_files,
                    pr_locals, pushed,
                    merged_files, push_info >>

(***************************************************************************)
(* _close_existing_pr_if_needed.                                           *)
(***************************************************************************)
\* if existing_pr: ... if not self.dry_run: existing_pr.edit(state='closed')
\* (faulty variant: the obsolete request is closed without the dry-run test)
AfterCloseFindMut(n) == IF n # 0 THEN "close_edit" ELSE "finally"
AfterCloseFind(n) == IF n # 0 /\ ~dry_run THEN "close_edit" ELSE "finally"

CloseFind ==
    /\ pc = "close_find"
    /\ calls' = calls \cup {"get_pulls"}
    /\ \/ \E n \in FindExistingPr(base_branch, dest_branch) :
            /\ existing_pr' = n
            /\ log' = IF n # 0 THEN log \cup {<<"info", "closing_obsolete_pr">>} ELSE log
            /\ pc' = AfterCloseFind(n)
       \/ /\ existing_pr' = existing_pr
          /\ log' = log \cup {Unexpected}
          /\ pc' = "finally"
    /\ UNCHANGED << flags, pair, tree, platform, origin_refs, conflicting_files,
                    head_branch, pr, in_create_try, mergeable_state, create_error,
                    pushed,
                    merged_files, push_info >>

CloseEdit ==
    /\ pc = "close_edit"
    /\ calls' = calls \cup {"pr_edit_closed"}
    /\ \/ /\ prs' = [prs EXCEPT ![existing_pr].state = "closed"]
          /\ log' = log
       \/ /\ prs' = prs
          /\ log' = log \cup {Unexpected}
    /\ pc' = "finally"
    /\ UNCHANGED << flags, pair, tree, remote, origin_refs,
                    conflicting_files, pr_locals, pushed,
                    merged_files, push_info >>

(***************************************************************************)
(* _sync_pair, step 3: the test merge.                                     *)
(***************************************************************************)
\* merge(f"origin/{base}", "--no-commit", "--no-ff"): it returns with the merge
\* staged, or raises on a content conflict (unmerged files in the index), or
\* raises before any merge has begun (the only outcome while another merge is
\* still in progress)
TrialMerge ==
    /\ pc = "trial_merge"
    /\ calls' = calls \cup {"trial_merge"}
    /\ \/ /\ ~merging
          /\ merging' = TRUE
          /\ unmerged' = {}
          /\ pc' = "abort_clean"
       \/ \E files \in ConflictSets :
            /\ ~merging
            /\ merging' = TRUE
            /\ unmerged' = files
            /\ pc' = "diff"
       \/ /\ merging' = merging
          /\ unmerged' = unmerged
          /\ pc' = "diff"
    /\ UNCHANGED << flags, pair, head, local_branches, platform, origin_refs,
                    conflicting_files, pr_locals, log, pushed,
                    merged_files, push_info >>

\* line 91, merge("--abort") after a merge that raised nothing; a raise here is
\* caught by the except GitCommandError of line 93
AbortCleanMerge ==
    /\ pc = "abort_clean"
    /\ calls' = calls \cup {"merge_abort"}
    /\ \/ /\ merging
          /\ merging' = FALSE
          /\ unmerged' = {}
          /\ log' = log \cup {<<"info", "no_conflicts">>}
          /\ head_branch' = base_branch
          /\ pc' = "pr_find"
       \/ /\ UNCHANGED << merging, unmerged, log, head_branch >>
          /\ pc' = "diff"
    /\ UNCHANGED << flags, pair, head, local_branches, platform, origin_refs,
                    conflicting_files, existing_pr, pr, in_create_try,
                    mergeable_state, create_error, pushed,
                    merged_files, push_info >>

\* diff('--name-only', '--diff-filter=U') and the list comprehension of line 95
DiffConflicts ==
    /\ pc = "diff"
    /\ calls' = calls \cup {"diff"}
    /\ \/ /\ conflicting_files' = unmerged
          /\ log' = log
          /\ pc' = "abort_conflict"
       \/ /\ conflicting_files' = conflicting_files
          /\ log' = log \cup {GitFailed}
          /\ pc' = "finally"
    /\ UNCHANGED << flags, pair, tree, platform, origin_refs, pr_locals, pushed,
                    merged_files, push_info >>

\* self.auto_resolve_docs and conflicting_files
\*     and all(f.startswith('docs/api/v2/') for f in conflicting_files)
\* (faulty variant: any() in place of all())
ShouldAutoResolveMut(files) ==
    /\ auto_resolve_docs
    /\ files # {}
    /\ \E f \in files : StartsWith(f, DocsPrefix)
ShouldAutoResolve(files) ==
    /\ auto_resolve_docs
    /\ files # {}
    /\ \A f \in files : StartsWith(f, DocsPrefix)

\* line 128: if self.dry_run: ... return
AfterAutoResolveEntry == IF dry_run THEN "finally" ELSE "ar_checkout"

\* line 96, merge("--abort") in the conflict handler, and the decision of line 98
AbortConflictMerge ==
    /\ pc = "abort_conflict"
    /\ calls' = calls \cup {"merge_abort"}
    /\ \/ /\ merging
          /\ merging' = FALSE
          /\ unmerged' = {}
          /\ IF ShouldAutoResolve(conflicting_files)
             THEN /\ log' = log \cup {<<"info", "auto_resolve">>}
                                \cup (IF dry_run THEN {<<"info", "dry_run_auto_resolve">>} ELSE {})
                  /\ pc' = AfterAutoResolveEntry
             ELSE /\ log' = log \cup {<<"error", "conflict">>}
                  /\ pc' = "finally"
       \/ /\ UNCHANGED << merging, unmerged >>
          /\ log' = log \cup {GitFailed}
          /\ pc' = "finally"
    /\ UNCHANGED << flags, pair, head, local_branches, platform, origin_refs,
                    conflicting_files, pr_locals, pushed,
                    merged_files, push_info >>

(***************************************************************************)
(* _auto_resolve_docs_conflict.                                            *)
(***************************************************************************)
resolution_branch == ResolutionBranch(base_branch, dest_branch)

\* except GitCommandError: logging.error("Failed to auto-resolve ...")
AutoResolveFailed == <<"error", "auto_resolve_failed">>

\* line 146
ArCheckout ==
    /\ pc = "ar_checkout"
    /\ calls' = calls \cup {"ar_checkout_dest"}
    /\ \/ /\ CanCheckout
          /\ head' = dest_branch
          /\ log' = log
          /\ pc' = "ar_pull"
       \/ /\ head' = head
          /\ log' = log \cup {AutoResolveFailed}
          /\ pc' = "ar_fail_checkout"
    /\ UNCHANGED << flags, pair, merging, unmerged, local_branches, platform,
                    origin_refs, conflicting_files, pr_locals, pushed,
                    merged_files, push_info >>

\* line 147: the pull succeeds only if the remote has the branch
ArPull ==
    /\ pc = "ar_pull"
    /\ calls' = calls \cup {"ar_pull"}
    /\ \/ /\ remote[dest_branch] # {}
          /\ log' = log
          /\ pc' = "ar_branch"
       \/ /\ log' = log \cup {AutoResolveFailed}
          /\ pc' = "ar_fail_checkout"
    /\ UNCHANGED << flags, pair, tree, platform, origin_refs, conflicting_files,
                    pr_locals, pushed,
                    merged_files, push_info >>

\* line 150: checkout('-B', resolution_branch)
ArBranch ==
    /\ pc = "ar_branch"
    /\ calls' = calls \cup {"checkout_B"}
    /\ \/ /\ head' = resolution_branch
          /\ local_branches' = local_branches \cup {resolution_branch}
          /\ log' = log
          /\ pc' = "ar_merge"
       \/ /\ UNCHANGED << head, local_branches >>
          /\ log' = log \cup {AutoResolveFailed}
          /\ pc' = "ar_fail_checkout"
    /\ UNCHANGED << flags, pair, merging, unmerged, platform, origin_refs,
                    conflicting_files, pr_locals, pushed,
                    merged_files, push_info >>

\* A file is a sequence of hunks.  "o" is the text of a hunk at the merge
\* base, "d" the text the destination changed it to, "b" the text the base
\* branch changed it to.
Ancestor == <<"o", "o">>

\* a three-way merge conflicts in a hunk both sides changed, differently
ConflictsIn(anc, ours, theirs) ==
    \E i \in 1..Len(anc) :
        ours[i] # anc[i] /\ theirs[i] # anc[i] /\ ours[i] # theirs[i]

\* the versions (ours: destination, theirs: base) of a file the trial merge
\* reported as conflicting: a conflict alone, and a conflict next to a hunk
\* only the base branch changed
FileVersions ==
    { [ours |-> <<"d", "o">>, theirs |-> <<"b", "o">>],
      [ours |-> <<"d", "o">>, theirs |-> <<"b", "b">>] }

\* git merge -Xours: a three-way merge hunk by hunk; a hunk only one side
\* changed takes that side's text, a conflicting hunk takes ours
MergeOurs(anc, ours, theirs) ==
    [i \in 1..Len(anc) |->
        IF ours[i] = theirs[i] THEN ours[i]
        ELSE IF ours[i] = anc[i] THEN theirs[i]
        ELSE IF theirs[i] = anc[i] THEN ours[i]
        ELSE ours[i]]

\* line 154: merge(f'origin/{base}', '-Xours', '--no-ff', '--no-edit') on the
\* resolution branch, which is at the destination's commit
ArMerge ==
    /\ pc = "ar_merge"
    /\ calls' = calls \cup {"merge_ours"}
    /\ \/ \E v \in [conflicting_files -> FileVersions] :
            /\ \A f \in conflicting_files :
                  ConflictsIn(Ancestor, v[f].ours, v[f].theirs)
            /\ merged_files' =
                  { [path |-> f, ours |-> v[f].ours, theirs |-> v[f].theirs,
                     merged |-> MergeOurs(Ancestor, v[f].ours, v[f].theirs)] :
                    f \in conflicting_files }
            /\ log' = log
            /\ pc' = "ar_push"
       \/ /\ merged_files' = merged_files
          /\ log' = log \cup {AutoResolveFailed}
          /\ pc' = "ar_fail_checkout"
    /\ UNCHANGED << flags, pair, tree, platform, origin_refs, conflicting_files,
                    pr_locals, pushed, push_info >>

\* the branch handed to origin.push in line 158
\* (faulty variant: the destination branch itself is pushed)
PushTargetMut == dest_branch
PushTarget == resolution_branch

\* the head of the request of line 161
ResolverHead == resolution_branch

\* line 158: origin.push(resolution_branch, force=True). The push updates the
\* remote branch to the merge of base into the destination, or raises, or
\* returns a result that reports a rejection, which the script does not read.
ArPush ==
    /\ pc = "ar_push"
    /\ calls' = calls \cup {"push"}
    /\ pushed' = pushed \cup {PushTarget}
    /\ merged_files' = merged_files
    /\ \/ /\ remote' = [remote EXCEPT ![PushTarget] =
                            origin_refs[dest_branch] \cup origin_refs[base_branch]]
          /\ push_info' = "ok"
          /\ log' = log
          /\ head_branch' = ResolverHead
          /\ pc' = "pr_find"
       \/ /\ UNCHANGED << remote, log >>
          /\ push_info' = "rejected"
          /\ head_branch' = ResolverHead
          /\ pc' = "pr_find"
       \/ /\ UNCHANGED << remote, head_branch >>
          /\ push_info' = "raised"
          /\ log' = log \cup {AutoResolveFailed}
          /\ pc' = "ar_fail_checkout"
    /\ UNCHANGED << flags, pair, tree, prs, origin_refs, conflicting_files,
                    existing_pr, pr, in_create_try, mergeable_state, create_error >>

\* line 166: checkout of the default branch in the resolver's handler; a raise
\* here leaves the resolver and is caught by _sync_pair's except GitCommandError
ArFailCheckout ==
    /\ pc = "ar_fail_checkout"
    /\ calls' = calls \cup {"ar_checkout_default"}
    /\ \/ /\ CanCheckout
          /\ head' = default_branch
          /\ log' = log
          /\ pc' = "ar_fail_delete"
       \/ /\ head' = head
          /\ log' = log \cup {GitFailed}
          /\ pc' = "finally"
    /\ UNCHANGED << flags, pair, merging, unmerged, local_branches, platform,
                    origin_refs, conflicting_files, pr_locals, pushed,
                    merged_files, push_info >>

\* lines 167-170: branch('-D', resolution_branch), its failure swallowed
ArFailDelete ==
    /\ pc = "ar_fail_delete"
    /\ calls' = calls \cup {"branch_D"}
    /\ \/ /\ resolution_branch \in local_branches
          /\ local_branches' = local_branches \ {resolution_branch}
       \/ local_branches' = local_branches
    /\ pc' = "finally"
    /\ UNCHANGED << flags, pair, head, merging, unmerged, platform, origin_refs,
                    conflicting_files, pr_locals, log, pushed,
                    merged_files, push_info >>

(***************************************************************************)
(* _create_or_update_pr.                                                   *)
(***************************************************************************)
\* line 209: if self.dry_run: ... return
\* (faulty variant: _merge_pr goes on to the refresh in a dry run)
MergePrEntryMut == "mp_update"
MergePrEntry == IF dry_run THEN "finally" ELSE "mp_update"

\* lines 176-186: where _create_or_update_pr goes with the result of the search
\* (faulty variant: an existing request is passed over unless --merge-prs is set)
AfterFindMut(n) ==
    IF n # 0 /\ merge_prs THEN MergePrEntry
    ELSE IF dry_run THEN "finally" ELSE "pr_create"
AfterFind(n) ==
    IF n # 0 THEN (IF merge_prs THEN MergePrEntry ELSE "finally")
    ELSE IF dry_run THEN "finally" ELSE "pr_create"

\* line 174: existing_pr = self._find_existing_pr(head_branch, base_branch); a
\* GithubException is caught by no handler before _sync_pair's except Exception
PrFind ==
    /\ pc = "pr_find"
    /\ calls' = calls \cup {"get_pulls"}
    /\ \/ \E n \in FindExistingPr(head_branch, dest_branch) :
            /\ existing_pr' = n
            /\ pr' = IF n # 0 /\ merge_prs THEN n ELSE pr
            /\ log' = log
                 \cup (IF n # 0 THEN {<<"info", "pr_already_exists">>} ELSE {})
                 \cup (IF n # 0 /\ merge_prs /\ dry_run
                       THEN {<<"info", "dry_run_merge">>} ELSE {})
                 \cup (IF n = 0 /\ dry_run THEN {<<"info", "dry_run_create">>} ELSE {})
            /\ pc' = AfterFind(n)
       \/ /\ UNCHANGED << existing_pr, pr >>
          /\ log' = log \cup {Unexpected}
          /\ pc' = "finally"
    /\ UNCHANGED << flags, pair, tree, platform, origin_refs, conflicting_files,
                    head_branch, in_create_try, mergeable_state, create_error,
                    pushed,
                    merged_files, push_info >>

\* the GithubExceptions the platform may raise: e.status and the message in
\* e.data ("A pull request already exists", "No commits between", another
\* validation failure, a server error)
CreateFailures ==
    { [status |-> 422, data |-> "already_exists"],
      [status |-> 422, data |-> "no_commits"],
      [status |-> 422, data |-> "other_validation"],
      [status |-> 500, data |-> "server_error"] }

\* lines 199-205: the log record for a GithubException caught around create_pull
\* (faulty variant: 'No commits between' is logged as an error)
CreateFailureLogMut(e) ==
    IF e.status = 422 /\ e.data = "already_exists" THEN <<"warning", "pr_exists_race">>
    ELSE <<"error", "create_failed">>
CreateFailureLog(e) ==
    IF e.status = 422 /\ e.data = "already_exists" THEN <<"warning", "pr_exists_race">>
    ELSE IF e.status = 422 /\ e.data = "no_commits"
         THEN <<"warning", "no_commits_between">>
    ELSE <<"error", "create_failed">>

\* lines 194-205: create_pull and, with --merge-prs, the call of _merge_pr
PrCreate ==
    /\ pc = "pr_create"
    /\ calls' = calls \cup {"create_pull"}
    /\ \/ /\ Len(prs) < MaxPRs
          /\ remote[head_branch] # {}
          /\ remote[dest_branch] # {}
          /\ prs' = Append(prs, [head |-> head_branch, base |-> dest_branch,
                                 state |-> "open"])
          /\ log' = log \cup {<<"info", "pr_created">>}
          /\ IF merge_prs
             THEN /\ pr' = Len(prs) + 1
                  /\ in_create_try' = TRUE
                  /\ pc' = MergePrEntry
             ELSE /\ UNCHANGED << pr, in_create_try >>
                  /\ pc' = "finally"
          /\ create_error' = create_error
       \/ \E e \in CreateFailures :
            /\ UNCHANGED << prs, pr, in_create_try >>
            /\ create_error' = e
            /\ log' = log \cup {CreateFailureLog(e)}
            /\ pc' = "finally"
    /\ UNCHANGED << flags, pair, tree, remote, origin_refs,
                    conflicting_files, head_branch, existing_pr, mergeable_state,
                    pushed,
                    merged_files, push_info >>

(***************************************************************************)
(* _merge_pr.                                                              *)
(***************************************************************************)
\* lines 221-244: the log record written for a mergeable_state
MergeLog(state) ==
    IF state = "clean" THEN <<"info", "pr_clean">>
    ELSE IF state = "blocked" THEN <<"warning", "pr_blocked">>
    ELSE IF state = "dirty" THEN <<"error", "pr_dirty">>
    ELSE IF state = "draft" THEN <<"warning", "pr_draft">>
    ELSE IF state = "unknown" THEN <<"warning", "pr_unknown">>
    ELSE <<"warning", "pr_not_mergeable">>

\* lines 221-224: pr.merge() is called in the branch of 'clean' only
\* (faulty variant: 'unstable' is merged like 'clean')
AfterUpdateMut(state) == IF state \in {"clean", "unstable"} THEN "mp_merge" ELSE "finally"
AfterUpdate(state) == IF state = "clean" THEN "mp_merge" ELSE "finally"

\* lines 214-244: pr.update(), the test of pr.state and the branch on
\* pr.mergeable_state. The platform may have closed the request meanwhile.
\* A GithubException of pr.update() is caught by the handler of line 199 when
\* _merge_pr was called from line 198, and by _sync_pair's otherwise.
MpUpdate ==
    /\ pc = "mp_update"
    /\ calls' = calls \cup {"pr_update"}
    /\ \/ /\ prs' = [prs EXCEPT ![pr].state = "closed"]
          /\ mergeable_state' = mergeable_state
          /\ log' = log \cup {<<"warning", "pr_not_open">>}
          /\ pc' = "finally"
       \/ \E state \in MergeableStates :
            /\ prs[pr].state = "open"
            /\ prs' = prs
            /\ mergeable_state' = state
            /\ log' = log \cup {MergeLog(state)}
            /\ pc' = AfterUpdate(state)
       \/ /\ in_create_try
          /\ \E e \in CreateFailures :
               log' = log \cup {CreateFailureLog(e)}
          /\ UNCHANGED << prs, mergeable_state >>
          /\ pc' = "finally"
       \/ /\ ~in_create_try
          /\ log' = log \cup {Unexpected}
          /\ UNCHANGED << prs, mergeable_state >>
          /\ pc' = "finally"
    /\ UNCHANGED << flags, pair, tree, remote, origin_refs,
                    conflicting_files, head_branch, existing_pr, pr, in_create_try,
                    create_error, pushed,
                    merged_files, push_info >>

\* lines 223-234: pr.merge(); every outcome is logged inside _merge_pr
MpMerge ==
    /\ pc = "mp_merge"
    /\ calls' = calls \cup {"pr_merge"}
    /\ \/ /\ prs' = [prs EXCEPT ![pr].state = "closed"]
          /\ remote' = [remote EXCEPT ![prs[pr].base] =
                            remote[prs[pr].base] \cup remote[prs[pr].head]]
          /\ log' = log \cup {<<"info", "merged">>}
       \/ /\ UNCHANGED platform
          /\ log' = log \cup {<<"warning", "merge_command_failed">>}
       \/ /\ UNCHANGED platform
          /\ log' = log \cup {<<"error", "merge_denied_405">>}
       \/ /\ UNCHANGED platform
          /\ log' = log \cup {<<"error", "merge_api_error">>}
    /\ pc' = "finally"
    /\ UNCHANGED << flags, pair, tree, origin_refs, conflicting_files, pr_locals,
                    pushed,
                    merged_files, push_info >>

(***************************************************************************)
(* _sync_pair's finally clause, and a new run of main().                   *)
(***************************************************************************)
\* (faulty variant of Finally: a raise of the checkout is swallowed and
\* sync_all goes on to the next pair)
FinallyMut ==
    /\ pc = "finally"
    /\ calls' = calls \cup {"checkout_default"}
    /\ \/ /\ CanCheckout
          /\ head' = default_branch
       \/ head' = head
    /\ k' = k + 1
    /\ pc' = "sync_all"
    /\ UNCHANGED << flags, runs, base_branch, dest_branch, merging, unmerged,
                    local_branches, platform, origin_refs, conflicting_files,
                    pr_locals, log, pushed, merged_files, push_info >>

\* line 121: checkout of the default branch. The call is in no try block: a
\* raise leaves _sync_pair and sync_all, and main() ends with the exception.
Finally ==
    /\ pc = "finally"
    /\ calls' = calls \cup {"checkout_default"}
    /\ \/ /\ CanCheckout
          /\ head' = default_branch
          /\ k' = k + 1
          /\ pc' = "sync_all"
       \/ /\ UNCHANGED << head, k >>
          /\ pc' = "crashed"
    /\ UNCHANGED << flags, runs, base_branch, dest_branch, merging, unmerged,
                    local_branches, platform, origin_refs, conflicting_files,
                    pr_locals, log, pushed,
                    merged_files, push_info >>

\* main() once more on the same .tmp clone: _setup_repo opens it and fetches
Rerun ==
    /\ pc \in {"done", "crashed"}
    /\ runs < MaxRuns
    /\ runs' = runs + 1
    /\ k' = 1
    /\ base_branch' = NoBranch
    /\ dest_branch' = NoBranch
    /\ conflicting_files' = {}
    /\ head_branch' = NoBranch
    /\ existing_pr' = 0
    /\ pr' = 0
    /\ in_create_try' = FALSE
    /\ mergeable_state' = "none"
    /\ create_error' = NoError
    /\ calls' = {}
    /\ log' = {}
    /\ pushed' = {}
    /\ merged_files' = {}
    /\ push_info' = "none"
    /\ \/ /\ origin_refs' = FetchRefs(origin_refs, remote)
          /\ pc' = "sync_all"
       \/ /\ origin_refs' = origin_refs
          /\ pc' = "crashed"
    /\ UNCHANGED << flags, tree, platform >>

Next ==
    \/ SyncAll
    \/ Fetch
    \/ CheckoutDest
    \/ PullDest
    \/ RevList
    \/ CloseFind
    \/ CloseEdit
    \/ TrialMerge
    \/ AbortCleanMerge
    \/ DiffConflicts
    \/ AbortConflictMerge
    \/ ArCheckout
    \/ ArPull
    \/ ArBranch
    \/ ArMerge
    \/ ArPush
    \/ ArFailCheckout
    \/ ArFailDelete
    \/ PrFind
    \/ PrCreate
    \/ MpUpdate
    \/ MpMerge
    \/ Finally
    \/ Rerun

Spec == Init /\ [][Next]_vars

(***************************************************************************)
(* Vocabulary of the properties.                                           *)
(***************************************************************************)
\* _sync_pair has returned (or raised) for the pair (base_branch, dest_branch)
PairEnded == pc \in {"sync_all", "done", "crashed"} /\ base_branch # NoBranch

\* the gateway calls that change the clone's branches, the remote or a request
MutatingCalls ==
    {"push", "checkout_B", "branch_D", "create_pull", "pr_merge", "pr_edit_closed"}

\* the gateway calls of _auto_resolve_docs_conflict before its hand-off
ResolverCalls ==
    {"ar_checkout_dest", "ar_pull", "checkout_B", "merge_ours", "push",
     "ar_checkout_default", "branch_D"}

\* the divergence query of this pair returned no commit
EmptyDivergenceSeen == <<"info", "already_merged">> \in log

\* some conflicting file lies outside docs/api/v2/
HasOutsidePath(files) == \E f \in files : ~StartsWith(f, DocsPrefix)

(***************************************************************************)
(* C1: on every exit path of _sync_pair, gateway failures included, the    *)
(* working tree is on the default branch when the pair ends.               *)
(***************************************************************************)
C1_TreeOnDefaultBranch == PairEnded => head = default_branch

(***************************************************************************)
(* C2: no failure of a git or platform operation in one pair aborts the    *)
(* run: when the run has stopped, sync_all has gone through every          *)
(* configured pair.                                                        *)
(***************************************************************************)
C2_RunProcessesEveryPair ==
    (pc \in {"done", "crashed"} /\ base_branch # NoBranch) => k > Len(Pairs(config))

(***************************************************************************)
(* C3: with dry-run on, whatever the other flags and the state of the      *)
(* repository and the platform, no mutating call is issued or about to be  *)
(* issued: no push, no creation, reset or deletion of a resolution branch, *)
(* no request create, merge or close.                                      *)
(***************************************************************************)
C3_DryRunPurity ==
    dry_run =>
        /\ calls \cap MutatingCalls = {}
        /\ pc \notin {"ar_branch", "ar_push", "ar_fail_delete", "pr_create",
                      "mp_merge", "close_edit"}
        /\ pushed = {}
        /\ local_branches = {}

\* a dry run that found an obsolete open request and left it open
C3_Witness ==
    /\ dry_run
    /\ PairEnded
    /\ <<"info", "closing_obsolete_pr">> \in log
    /\ existing_pr # 0
    /\ prs[existing_pr].state = "open"

(***************************************************************************)
(* C4: at most one open request exists per (head, base) at any time, and   *)
(* create_pull is issued only after the search for the same (head, base)   *)
(* returned none in the same pair, while no such open request exists.      *)
(***************************************************************************)
C4_OneOpenRequestPerPair ==
    /\ \A m, n \in 1..Len(prs) :
          (/\ prs[m].state = "open"
           /\ prs[n].state = "open"
           /\ prs[m].head = prs[n].head
           /\ prs[m].base = prs[n].base) => m = n
    /\ (pc = "pr_create" \/ "create_pull" \in calls) =>
          /\ "get_pulls" \in calls
          /\ existing_pr = 0
    /\ pc = "pr_create" => OpenPrs(head_branch, dest_branch) = {}

\* a later run finds the request an earlier run created and creates none
C4_Witness ==
    /\ runs = 2
    /\ pc = "finally"
    /\ existing_pr = 2
    /\ <<"info", "pr_already_exists">> \in log
    /\ "create_pull" \notin calls

(***************************************************************************)
(* C5 as stated: once the divergence of a pair is found empty, no trial    *)
(* merge, push or request creation occurs, and when the pair ends every    *)
(* open request of the pair is closed if dry-run is off.                   *)
(***************************************************************************)
C5_UpToDateAlwaysCloses ==
    EmptyDivergenceSeen =>
        /\ calls \cap {"trial_merge", "merge_ours", "checkout_B", "push",
                       "create_pull", "pr_merge"} = {}
        /\ (PairEnded /\ ~dry_run) => OpenPrs(base_branch, dest_branch) = {}

(***************************************************************************)
(* C5 amended: once the divergence of a pair is found empty, no trial      *)
(* merge, push or request creation occurs; with dry-run off every open     *)
(* request of the pair is closed by the end of the pair unless the search  *)
(* or the close call failed (logged as an unexpected error); with dry-run  *)
(* on the request found is left open and no close call is issued.          *)
(***************************************************************************)
C5_UpToDateClosesUnlessCallFails ==
    EmptyDivergenceSeen =>
        /\ calls \cap {"trial_merge", "merge_ours", "checkout_B", "push",
                       "create_pull", "pr_merge"} = {}
        /\ (PairEnded /\ ~dry_run) =>
              \/ OpenPrs(base_branch, dest_branch) = {}
              \/ Unexpected \in log
        /\ (PairEnded /\ ~dry_run /\ existing_pr # 0) => "pr_edit_closed" \in calls
        /\ (dry_run /\ existing_pr # 0) =>
              /\ prs[existing_pr].state = "open"
              /\ "pr_edit_closed" \notin calls

\* an up-to-date pair whose open request was closed
C5_Witness ==
    /\ PairEnded
    /\ EmptyDivergenceSeen
    /\ ~dry_run
    /\ existing_pr # 0
    /\ prs[existing_pr].state = "closed"
    /\ prs[existing_pr].head = base_branch
    /\ prs[existing_pr].base = dest_branch
    /\ "pr_edit_closed" \in calls

(***************************************************************************)
(* C6: when the conflict set of the trial merge has a path outside the     *)
(* protected prefix, then whatever the auto-resolve flag no request is     *)
(* created, merged or closed, no branch is created or pushed, and the      *)
(* working tree ends on the default branch.                                *)
(***************************************************************************)
C6_ConflictBlocked ==
    HasOutsidePath(conflicting_files) =>
        /\ calls \cap (MutatingCalls \cup ResolverCalls) = {}
        /\ PairEnded => head = default_branch

(***************************************************************************)
(* C7: a step of the conflict resolver is executed, or about to be, only   *)
(* in a pair whose trial merge left a non-empty conflict set, all of whose *)
(* paths start with docs/api/v2/, and only with auto-resolve enabled.      *)
(***************************************************************************)
C7_ResolverGated ==
    (\/ calls \cap ResolverCalls # {}
     \/ pc \in {"ar_checkout", "ar_pull", "ar_branch", "ar_merge", "ar_push",
                "ar_fail_checkout", "ar_fail_delete"}) =>
        /\ auto_resolve_docs
        /\ "trial_merge" \in calls
        /\ conflicting_files # {}
        /\ \A f \in conflicting_files : StartsWith(f, DocsPrefix)

\* the resolver has pushed for a conflict confined to docs/api/v2/
C7_Witness ==
    /\ "push" \in calls
    /\ conflicting_files = {DocsA}
    /\ auto_resolve_docs

(***************************************************************************)
(* C8: after the resolver's push the request is searched and created with  *)
(* head = the resolution branch and base = the destination, and the only   *)
(* branches ever pushed are resolution branches of configured pairs, never *)
(* a configured base or destination branch.                                *)
(***************************************************************************)
C8_OnlyResolutionBranchPushed ==
    /\ ("push" \in calls /\ pc \in {"pr_find", "pr_create", "mp_update", "mp_merge"}) =>
          head_branch = ResolutionBranch(base_branch, dest_branch)
    /\ ("push" \in calls /\ <<"info", "pr_created">> \in log) =>
          /\ prs[Len(prs)].head = ResolutionBranch(base_branch, dest_branch)
          /\ prs[Len(prs)].base = dest_branch
    /\ \A b \in pushed :
          /\ b \notin ConfiguredBranches(config)
          /\ \E i \in 1..Len(Pairs(config)) :
                b = ResolutionBranch(Pairs(config)[i].base, Pairs(config)[i].dest)

\* a successful auto-resolution: pushed, and the request created from the
\* resolution branch into the destination
C8_Witness ==
    /\ PairEnded
    /\ "push" \in calls
    /\ <<"info", "pr_created">> \in log
    /\ remote[ResolutionBranch(base_branch, dest_branch)] # {}
    /\ dest_branch = Dev

(***************************************************************************)
(* C9: the merge step maps the refreshed readiness to exactly one action:  *)
(* clean -> the merge is attempted; dirty -> an error is logged and no     *)
(* merge; every other value -> a warning and no merge.  So pr.merge() is   *)
(* issued only for a request whose refreshed readiness is clean.           *)
(***************************************************************************)
MergeStepTags ==
    {"pr_clean", "pr_blocked", "pr_dirty", "pr_draft", "pr_unknown", "pr_not_mergeable"}

C9_MergeStateMapping ==
    LET recs == {r \in log : r[2] \in MergeStepTags}
        attempted == pc = "mp_merge" \/ "pr_merge" \in calls
    IN  /\ attempted <=> mergeable_state = "clean"
        /\ mergeable_state = "none" => recs = {}
        /\ mergeable_state # "none" =>
              /\ Cardinality(recs) = 1
              /\ \A r \in recs :
                    r[1] = (IF mergeable_state = "clean" THEN "info"
                            ELSE IF mergeable_state = "dirty" THEN "error"
                            ELSE "warning")

\* a request found clean after the refresh and merged
C9_Witness ==
    /\ mergeable_state = "clean"
    /\ "pr_merge" \in calls
    /\ <<"info", "merged">> \in log

(***************************************************************************)
(* C10: every trial merge that was started is aborted before the pair      *)
(* ends, on every path: no pair that ran a trial merge ends with a merge   *)
(* in progress or unmerged files in the working tree.                      *)
(***************************************************************************)
C10_TrialMergeAlwaysAborted ==
    (PairEnded /\ "trial_merge" \in calls) => (~merging /\ unmerged = {})

(***************************************************************************)
(* C11: a trial merge that failed without a content conflict (the handler  *)
(* of line 93 ran and no conflicting file was listed) ends the pair as a   *)
(* hard failure, logged as a failed git command: the pair never reaches    *)
(* the conflict-blocked report or the auto-resolve decision.               *)
(***************************************************************************)
C11_NonConflictFailureIsHard ==
    ("diff" \in calls /\ conflicting_files = {}) =>
        /\ <<"error", "conflict">> \notin log
        /\ <<"info", "auto_resolve">> \notin log
        /\ pc \notin {"ar_checkout", "ar_pull", "ar_branch", "ar_merge", "ar_push"}
        /\ PairEnded => GitFailed \in log

(***************************************************************************)
(* C12: when a step of the conflict resolver has failed (a git step,       *)
(* logged as a failed auto-resolution, or the hand-off to the request      *)
(* lifecycle, logged as an unexpected error), the pair ends with the       *)
(* working tree on the default branch and with a local deletion of the     *)
(* resolution branch attempted.                                            *)
(***************************************************************************)
C12_ResolverFailureCleansUp ==
    (/\ PairEnded
     /\ calls \cap ResolverCalls # {}
     /\ (AutoResolveFailed \in log \/ Unexpected \in log)) =>
        /\ head = default_branch
        /\ "branch_D" \in calls

(***************************************************************************)
(* C13: a failure of create_pull is classified by its cause: 'a request    *)
(* already exists' and 'no commits between' are logged as warnings, every  *)
(* other failure as an error; in each case the failure is absorbed in the  *)
(* create step: no merge step is run for the request, no handler of        *)
(* _sync_pair or of the resolver logs it, and the pair goes to its         *)
(* cleanup.                                                                *)
(***************************************************************************)
CreateTags == {"pr_exists_race", "no_commits_between", "create_failed"}

C13_CreateFailureClassified ==
    create_error # NoError =>
        /\ {r \in log : r[2] \in CreateTags} =
              { IF create_error.data = "already_exists"
                   THEN <<"warning", "pr_exists_race">>
                ELSE IF create_error.data = "no_commits"
                   THEN <<"warning", "no_commits_between">>
                ELSE <<"error", "create_failed">> }
        /\ calls \cap {"pr_update", "pr_merge"} = {}
        /\ pr = 0
        /\ <<"info", "pr_created">> \notin log
        /\ log \cap {GitFailed, Unexpected, AutoResolveFailed} = {}
        /\ pc \in {"finally", "sync_all", "done", "crashed"}

\* with --merge-prs, create_pull reported 'no commits between': a warning,
\* no merge step, and the pair ended on the default branch
C13_Witness ==
    /\ PairEnded
    /\ merge_prs
    /\ create_error.data = "no_commits"
    /\ <<"warning", "no_commits_between">> \in log
    /\ head = default_branch

(***************************************************************************)
(* C14: after a successful auto-resolution (merged, pushed, no resolver    *)
(* step failed), every file of the conflict set has on the resolution      *)
(* branch the content of the destination's version of that file.           *)
(***************************************************************************)
C14_ConflictingFilesKeepDestination ==
    ("push" \in calls /\ AutoResolveFailed \notin log) =>
        \A f \in conflicting_files :
            \E r \in merged_files : r.path = f /\ r.merged = r.ours

(***************************************************************************)
(* C15: pr.merge() is issued, or about to be, only with --merge-prs set    *)
(* and dry-run off, and only after pr.update() in the same pair; the       *)
(* readiness is read only after that refresh; and when the refreshed       *)
(* request is not open, no readiness is read and no merge is attempted.    *)
(***************************************************************************)
C15_MergeOnlyAfterRefresh ==
    /\ (pc \in {"mp_update", "mp_merge"} \/ calls \cap {"pr_update", "pr_merge"} # {}) =>
          (merge_prs /\ ~dry_run)
    /\ (pc = "mp_merge" \/ "pr_merge" \in calls) => "pr_update" \in calls
    /\ mergeable_state # "none" => "pr_update" \in calls
    /\ pc = "mp_merge" => prs[pr].state = "open"
    /\ <<"warning", "pr_not_open">> \in log =>
          /\ "pr_merge" \notin calls
          /\ pc # "mp_merge"
          /\ mergeable_state = "none"

\* the refresh showed the request closed, and the pair ended with no merge
C15_Witness ==
    /\ PairEnded
    /\ merge_prs
    /\ "pr_update" \in calls
    /\ <<"warning", "pr_not_open">> \in log
    /\ "pr_merge" \notin calls

(***************************************************************************)
(* C16: pairs are processed one at a time in the order of the              *)
(* configuration (groups in order, destinations in order within a group):  *)
(* the pair in process is the k-th of that order, k advances by one, and   *)
(* only in the step in which the final checkout of the default branch      *)
(* succeeds; pair N+1 starts only from sync_all, with the tree on the      *)
(* default branch and pair N's final checkout issued.                      *)
(***************************************************************************)
ExpectedOrder ==
    IF config = ConfigOneGroup
    THEN << <<Release, Main>>, <<Release, Dev>> >>
    ELSE IF config = ConfigTwoGroups
    THEN << <<Release, Main>>, <<Main, Dev>> >>
    ELSE << <<Release, Main>>, <<RelUnder, Main>> >>

C16_PairsInOrder ==
    /\ [](pc \notin {"sync_all", "done", "crashed"} =>
             /\ k \in 1..Len(ExpectedOrder)
             /\ <<base_branch, dest_branch>> = ExpectedOrder[k])
    /\ [][(pc' = "fetch" /\ k > 1) =>
             /\ pc = "sync_all"
             /\ head = default_branch
             /\ "checkout_default" \in calls
             /\ <<base_branch, dest_branch>> = ExpectedOrder[k - 1]]_vars
    /\ [][k' # k =>
             \/ /\ k' = k + 1
                /\ pc = "finally"
                /\ CanCheckout
                /\ head' = default_branch
             \/ /\ k' = 1
                /\ runs' = runs + 1]_vars

\* the second pair of the configuration is in process after the first ended
C16_Witness ==
    /\ k = 2
    /\ pc = "trial_merge"
    /\ <<base_branch, dest_branch>> = <<Main, Dev>>
    /\ head = Dev

(***************************************************************************)
(* C17: once the fetch of a pair has been issued and the base or the       *)
(* destination branch is absent on the remote, no checkout or pull of the  *)
(* destination, no divergence query, no trial merge and no platform call   *)
(* is made for the pair: the only other call is the final checkout of the  *)
(* default branch, and nothing but the skip warning (or the failure of the *)
(* fetch itself) is logged.                                                *)
(***************************************************************************)
C17_AbsentBranchSkipped ==
    (/\ "fetch" \in calls
     /\ (remote[base_branch] = {} \/ remote[dest_branch] = {})) =>
        /\ calls \subseteq {"fetch", "checkout_default"}
        /\ pc \in {"finally", "sync_all", "done", "crashed"}
        /\ log \in {{<<"warning", "branch_not_found">>}, {GitFailed}}

(***************************************************************************)
(* C18: the steps of the conflict resolver happen in order: checkout and   *)
(* pull of the destination, then the resolution branch is created or reset *)
(* from it, then base is merged into it, then it is pushed; and a request  *)
(* with the resolution branch as head is searched or created only after    *)
(* the push has succeeded, never in a pair whose push did not succeed.     *)
(***************************************************************************)
C18_ResolverStepOrder ==
    /\ (pc = "ar_branch" \/ "checkout_B" \in calls) =>
          {"ar_checkout_dest", "ar_pull"} \subseteq calls
    /\ (pc = "ar_merge" \/ "merge_ours" \in calls) => "checkout_B" \in calls
    /\ pc = "ar_merge" => head = resolution_branch
    /\ (pc = "ar_push" \/ "push" \in calls) => "merge_ours" \in calls
    /\ (/\ head_branch = resolution_branch
        /\ \/ pc \in {"pr_find", "pr_create", "mp_update", "mp_merge"}
           \/ calls \cap {"get_pulls", "create_pull"} # {}) =>
          push_info = "ok"

(***************************************************************************)
(* C19: the name of the resolution branch differs for every two different  *)
(* (base, destination) pairs: whenever the resolver works on a pair, its   *)
(* resolution branch is the resolution branch of no other configured pair, *)
(* so no branch it pushes is another pair's resolution branch.             *)
(***************************************************************************)
OtherPairs ==
    {i \in 1..Len(Pairs(config)) :
        <<Pairs(config)[i].base, Pairs(config)[i].dest>> # <<base_branch, dest_branch>>}

C19_ResolutionBranchUnique ==
    (\/ pc \in {"ar_checkout", "ar_pull", "ar_branch", "ar_merge", "ar_push"}
     \/ "push" \in calls) =>
        /\ \A i \in OtherPairs :
              resolution_branch #
                  ResolutionBranch(Pairs(config)[i].base, Pairs(config)[i].dest)
        /\ \A b \in pushed : \A i \in OtherPairs :
              b # ResolutionBranch(Pairs(config)[i].base, Pairs(config)[i].dest)

(***************************************************************************)
(* C20: pr.edit(state='closed') is issued, or about to be, only in a pair  *)
(* whose divergence was found empty and in which no trial merge was run,   *)
(* and only on the request found open with head = the pair's base and      *)
(* base = the pair's destination; that request never has a resolution      *)
(* branch of a configured pair as its head.                                *)
(***************************************************************************)
C20_CloseOnlyObsoleteRequest ==
    (pc = "close_edit" \/ "pr_edit_closed" \in calls) =>
        /\ EmptyDivergenceSeen
        /\ "trial_merge" \notin calls
        /\ existing_pr \in 1..Len(prs)
        /\ prs[existing_pr].head = base_branch
        /\ prs[existing_pr].base = dest_branch
        /\ pc = "close_edit" => prs[existing_pr].state = "open"
        /\ \A i \in 1..Len(Pairs(config)) :
              prs[existing_pr].head #
                  ResolutionBranch(Pairs(config)[i].base, Pairs(config)[i].dest)

\* the obsolete request of an up-to-date pair has been closed, the request
\* closed is the one headed by the pair's base, and the platform also holds
\* the request an earlier run made from the pair's resolution branch
C20_Witness ==
    /\ PairEnded
    /\ "pr_edit_closed" \in calls
    /\ prs[existing_pr].state = "closed"
    /\ prs[existing_pr].head = base_branch
    /\ \E n \in 1..Len(prs) :
          prs[n].head = ResolutionBranch(base_branch, dest_branch)

=============================================================================
